---- MODULE Spec2Model ----
(***************************************************************************)
(* Intonation analysis of the server: analisarEntonacao and its helpers.   *)
(*                                                                         *)
(* Amplitudes are kept in PCM steps (sample / 32768, bufferToFloat32), so  *)
(* that every float the code handles is an exact integer here.  Pitches    *)
(* are kept in steps of 1 / PitchResolution Hz.  A waveform is a sequence  *)
(* of runs [v |-> amplitude, n |-> number of consecutive samples].         *)
(*                                                                         *)
(* detectPitch is the YIN detector of the Pitchfinder library: the model   *)
(* draws its answer for each window when the window is first analysed and  *)
(* repeats that answer when the same window is analysed again, the         *)
(* detector being a function of the slice it is given.                     *)
(***************************************************************************)
EXTENDS Integers, Sequences, FiniteSets, TLC

VARIABLES
    floatSamples,   \* the argument of analisarEntonacao
    samples,        \* the waveform the scans read (line 56)
    pc,             \* Start, Phase1Scan, Phase2Scan, Success, Insufficient
    i,              \* the loop index of the running scan (lines 71, 87)
    heard,          \* detectPitch's answer for each window analysed so far
    pitches,        \* the contour (line 65)
    origin,         \* for each contour element, its window start and its scan
    visited1,       \* the start indices the first scan has visited
    visited2,       \* the start indices the second scan has visited
    retries,        \* how many times the second scan was entered
    features,       \* lines 105-113, once computed
    result          \* the returned object, once returned

vars == <<floatSamples, samples, pc, i, heard, pitches, origin,
          visited1, visited2, retries, features, result>>

(***************************************************************************)
(* Bounds of the model                                                     *)
(***************************************************************************)
\* windows in the longest waveform whose detector answers are drawn freely
MaxWindows == 5
\* samples in the longest waveform given sample by sample
MaxSamples == 2
\* pitch steps per Hz
PitchResolution == 4

(***************************************************************************)
(* Program constants                                                       *)
(***************************************************************************)
PcmScale == 32768
windowSize == 512
hop == 256
NoPitch == 0

Hz(x) == x * PitchResolution

(***************************************************************************)
(* Inputs                                                                  *)
(***************************************************************************)
Amps == {-32768, -3277, -3276, 0, 1, 3276, 3277, 32767}
LongAmps == {1000}

Estimates == {NoPitch, Hz(30), Hz(40), Hz(70), Hz(70) + 1, Hz(150), Hz(600), Hz(800)}

ScaleHz(s) == [k \in DOMAIN s |-> Hz(s[k])]
Example1 == ScaleHz(<<100, 105, 110, 108, 102>>)
Example2 == ScaleHz(<<150, 180, 140, 200, 130, 210>>)
Examples == {Example1, Example2}

\* the shortest waveform in which the scan visits w windows
LengthFor(w) == windowSize + hop * (w - 1) + 1

FreeLengths ==
    {windowSize - 1, windowSize, windowSize + hop}
        \cup {LengthFor(w) : w \in 1..MaxWindows}
ExampleLengths == {LengthFor(Len(ex)) : ex \in Examples}

ShortWaves ==
    UNION {[1..n -> [v : Amps, n : {1}]] : n \in 0..MaxSamples}
LongWaves ==
    {<<[v |-> a, n |-> len]>> : a \in LongAmps, len \in FreeLengths \cup ExampleLengths}
Waveforms == ShortWaves \cup LongWaves

(***************************************************************************)
(* Waveform helpers                                                        *)
(***************************************************************************)
RECURSIVE Length(_)
Length(w) == IF w = <<>> THEN 0 ELSE Head(w).n + Length(Tail(w))

RECURSIVE SampleAt(_, _)
SampleAt(w, idx) ==
    IF idx <= Head(w).n THEN Head(w).v ELSE SampleAt(Tail(w), idx - Head(w).n)

Abs(x) == IF x < 0 THEN -x ELSE x

\* Math.max(...floatSamples.map(Math.abs)) < 0.1  (-Infinity when empty)
MaxAmplitudeLow(w) == \A k \in DOMAIN w : 10 * Abs(w[k].v) < PcmScale

Clip(x) == IF x > PcmScale THEN PcmScale ELSE IF x < -PcmScale THEN -PcmScale ELSE x

amplificarAudio(w, gain) ==
    [k \in DOMAIN w |-> [v |-> Clip(w[k].v * gain), n |-> w[k].n]]

AmplificadoDefault(w) == amplificarAudio(w, 2)
Amplificado(w) == amplificarAudio(w, 3)

Normalizado(w) == IF MaxAmplitudeLow(w) THEN Amplificado(w) ELSE w

(***************************************************************************)
(* Scan helpers                                                            *)
(***************************************************************************)
LoopGuard(start, len) == start < len - windowSize

AcceptStrictInclusive(pitch) ==
    pitch # NoPitch /\ pitch >= Hz(40) /\ pitch <= Hz(600)
AcceptStrict(pitch) == pitch # NoPitch /\ pitch > Hz(40) /\ pitch < Hz(600)

AcceptRelaxedNarrow(pitch) == pitch # NoPitch /\ pitch > Hz(40) /\ pitch < Hz(800)
AcceptRelaxed(pitch) == pitch # NoPitch /\ pitch > Hz(30) /\ pitch < Hz(800)

Unshift(s, x) == <<x>> \o s
Push(s, x) == Append(s, x)

NeedsRetryOffByOne(p) == Len(p) <= 5
NeedsRetry(p) == Len(p) < 5

TooFewOffByOne(p) == Len(p) < 4
TooFew(p) == Len(p) < 5

\* the answers detectPitch may give for the window analysed next
DetectChoices ==
    LET k == Len(heard) + 1
        len == Length(samples)
    IN  (IF len \in FreeLengths THEN Estimates ELSE {})
          \cup {ex[k] : ex \in {e \in Examples :
                                   /\ LengthFor(Len(e)) = len
                                   /\ k <= Len(e)
                                   /\ \A j \in 1..(k - 1) : heard[j] = e[j]}}

(***************************************************************************)
(* Features and score                                                      *)
(***************************************************************************)
RECURSIVE SumSeq(_)
SumSeq(s) == IF s = <<>> THEN 0 ELSE Head(s) + SumSeq(Tail(s))

Elems(s) == {s[k] : k \in DOMAIN s}
MinOf(s) == CHOOSE x \in Elems(s) : \A y \in Elems(s) : x <= y
MaxOf(s) == CHOOSE x \in Elems(s) : \A y \in Elems(s) : x >= y

\* range, in pitch steps
RangeOf(p) == MaxOf(p) - MinOf(p)

\* Len(p)^2 times the sum of squared deviations from the mean:
\* variance = SumDev2(p) / Len(p)^3, in squared pitch steps
SumDev2(p) ==
    LET n == Len(p)
        S == SumSeq(p)
    IN  SumSeq([k \in DOMAIN p |-> (n * p[k] - S) * (n * p[k] - S)])

Cube(n) == n * n * n

\* sd < hz, sd > hz, for sd = Math.sqrt(variance)
SdBelow(p, hz) == SumDev2(p) < Hz(hz) * Hz(hz) * Cube(Len(p))
SdAbove(p, hz) == SumDev2(p) > Hz(hz) * Hz(hz) * Cube(Len(p))

\* slope = (last - first) / length compared with num / den Hz per point
SlopeDiff(p) == p[Len(p)] - p[1]
SlopeBelow(p, num, den) == SlopeDiff(p) * den < num * PitchResolution * Len(p)
SlopeAbove(p, num, den) == SlopeDiff(p) * den > num * PitchResolution * Len(p)

RangePointsZeroFloor(p) ==
    IF RangeOf(p) < Hz(20) THEN 0
    ELSE IF RangeOf(p) < Hz(60) THEN 30
    ELSE 40
RangePoints(p) ==
    IF RangeOf(p) < Hz(20) THEN 10
    ELSE IF RangeOf(p) < Hz(60) THEN 30
    ELSE 40

SdPointsMonotone(p) ==
    IF SdBelow(p, 10) THEN 10
    ELSE IF SdBelow(p, 40) THEN 20
    ELSE 30
SdPoints(p) ==
    IF SdBelow(p, 10) THEN 10
    ELSE IF SdBelow(p, 40) THEN 30
    ELSE 20

SlopePoints(p) ==
    IF SlopeBelow(p, -1, 10) THEN 30
    ELSE IF SlopeBelow(p, 1, 20) THEN 20
    ELSE 10

RangeSentence(p) ==
    IF RangeOf(p) < Hz(20) THEN "monotone"
    ELSE IF RangeOf(p) < Hz(60) THEN "good variation"
    ELSE "great variation"

StabilitySentence(p) ==
    IF SdAbove(p, 40) THEN "unstable"
    ELSE IF SdBelow(p, 10) THEN "robotic"
    ELSE "good stability"

DeclinationSentence(p) ==
    IF SlopeAbove(p, 1, 10) THEN "rising"
    ELSE IF SlopeBelow(p, -1, 10) THEN "falling"
    ELSE "neutral"

ClampScore(s) == IF s > 100 THEN 100 ELSE IF s < 0 THEN 0 ELSE s

\* Number.toFixed: the nearest multiple, ties away from zero (b > 0)
RoundDiv(a, b) ==
    IF a >= 0 THEN (2 * a + b) \div (2 * b) ELSE -((2 * (-a) + b) \div (2 * b))

RECURSIVE IsqrtIn(_, _, _)
IsqrtIn(x, lo, hi) ==
    IF lo = hi THEN lo
    ELSE LET mid == (lo + hi + 1) \div 2
         IN  IF mid * mid <= x THEN IsqrtIn(x, mid, hi) ELSE IsqrtIn(x, lo, mid - 1)

\* sd.toFixed(2), in hundredths of a Hz
SdFixed2(p) ==
    LET D == PitchResolution * PitchResolution * Cube(Len(p))
        a == SumDev2(p) \div D
        b == SumDev2(p) % D
        X == 10000 * a + (10000 * b) \div D
        rem == (10000 * b) % D
        r == IsqrtIn(X, 0, 46340)
    IN  IF X > r * r + r \/ (X = r * r + r /\ 4 * rem >= D) THEN r + 1 ELSE r

FeatureSet(p) ==
    [computed |-> TRUE,
     min |-> MinOf(p),
     max |-> MaxOf(p),
     range |-> RangeOf(p),
     sum |-> SumSeq(p),
     sumDev2 |-> SumDev2(p),
     slopeDiff |-> SlopeDiff(p),
     count |-> Len(p)]

NoFeatures == [computed |-> FALSE]
NoResult == [pending |-> TRUE]

InsufficientResult == [score |-> 0, feedback |-> <<"insufficient">>]

SuccessResult(p) ==
    [score |-> ClampScore(RangePoints(p) + SdPoints(p) + SlopePoints(p)),
     feedback |-> <<RangeSentence(p), StabilitySentence(p), DeclinationSentence(p)>>,
     range |-> RoundDiv(100 * RangeOf(p), PitchResolution),
     sd |-> SdFixed2(p),
     slope |-> RoundDiv(10000 * SlopeDiff(p), PitchResolution * Len(p)),
     pitchCount |-> Len(p),
     meanPitch |-> RoundDiv(100 * SumSeq(p), PitchResolution * Len(p))]

(***************************************************************************)
(* The state machine                                                       *)
(***************************************************************************)
Init ==
    /\ floatSamples \in Waveforms
    /\ samples = <<>>
    /\ pc = "Start"
    /\ i = 0
    /\ heard = <<>>
    /\ pitches = <<>>
    /\ origin = <<>>
    /\ visited1 = <<>>
    /\ visited2 = <<>>
    /\ retries = 0
    /\ features = NoFeatures
    /\ result = NoResult

\* lines 56-71: normalise, create the detector, start the first scan
Normalise ==
    /\ pc = "Start"
    /\ samples' = Normalizado(floatSamples)
    /\ pitches' = <<>>
    /\ i' = 0
    /\ pc' = "Phase1Scan"
    /\ UNCHANGED <<floatSamples, heard, origin, visited1, visited2, retries,
                   features, result>>

\* line 97: the gate in front of the feature computation
Gate ==
    IF TooFew(pitches)
    THEN pc' = "Insufficient" /\ result' = InsufficientResult
    ELSE pc' = "Success" /\ UNCHANGED result

\* lines 71-79: one window of the strict scan
Phase1Step ==
    /\ pc = "Phase1Scan"
    /\ LoopGuard(i, Length(samples))
    /\ \E pitch \in DetectChoices :
          /\ heard' = Append(heard, pitch)
          /\ IF AcceptStrict(pitch)
             THEN /\ pitches' = Push(pitches, pitch)
                  /\ origin' = Push(origin, [start |-> i, phase |-> 1])
             ELSE UNCHANGED <<pitches, origin>>
    /\ visited1' = Append(visited1, i)
    /\ i' = i + hop
    /\ UNCHANGED <<floatSamples, samples, pc, visited2, retries, features, result>>

\* lines 71, 84, 97: the strict scan is over
Phase1End ==
    /\ pc = "Phase1Scan"
    /\ ~LoopGuard(i, Length(samples))
    /\ IF NeedsRetry(pitches)
       THEN pc' = "Phase2Scan" /\ i' = 0 /\ retries' = retries + 1 /\ UNCHANGED result
       ELSE Gate /\ UNCHANGED <<i, retries>>
    /\ UNCHANGED <<floatSamples, samples, heard, pitches, origin,
                   visited1, visited2, features>>

\* lines 87-93: one window of the relaxed scan
Phase2Step ==
    /\ pc = "Phase2Scan"
    /\ LoopGuard(i, Length(samples))
    /\ LET pitch == heard[(i \div hop) + 1]
       IN  IF AcceptRelaxed(pitch)
           THEN /\ pitches' = Push(pitches, pitch)
                /\ origin' = Push(origin, [start |-> i, phase |-> 2])
           ELSE UNCHANGED <<pitches, origin>>
    /\ visited2' = Append(visited2, i)
    /\ i' = i + hop
    /\ UNCHANGED <<floatSamples, samples, pc, heard, visited1, retries, features, result>>

\* lines 87, 97: the relaxed scan is over
Phase2End ==
    /\ pc = "Phase2Scan"
    /\ ~LoopGuard(i, Length(samples))
    /\ Gate
    /\ UNCHANGED <<floatSamples, samples, i, heard, pitches, origin,
                   visited1, visited2, retries, features>>

\* lines 104-155: features, score, feedback, the returned object
Score ==
    /\ pc = "Success"
    /\ result = NoResult
    /\ features' = FeatureSet(pitches)
    /\ result' = SuccessResult(pitches)
    /\ UNCHANGED <<floatSamples, samples, pc, i, heard, pitches, origin,
                   visited1, visited2, retries>>

Next ==
    \/ Normalise
    \/ Phase1Step
    \/ Phase1End
    \/ Phase2Step
    \/ Phase2End
    \/ Score

Spec == Init /\ [][Next]_vars

(***************************************************************************)
(* Properties                                                              *)
(***************************************************************************)
Scored == pc = "Success" /\ "pitchCount" \in DOMAIN result
Returned == result # NoResult
Terminal == {"Success", "Insufficient"}
NumericFields == {"range", "sd", "slope", "pitchCount", "meanPitch"}

SumSquares(p) == SumSeq([k \in DOMAIN p |-> p[k] * p[k]])

\* sd < hz with the variance taken as mean of squares minus squared mean
RubricSdBelow(p, hz) ==
    Len(p) * SumSquares(p) - SumSeq(p) * SumSeq(p) < Hz(hz) * Hz(hz) * Len(p) * Len(p)

\* slope < num / den
RubricSlopeBelow(p, num, den) ==
    (p[Len(p)] - p[1]) * den < num * PitchResolution * Len(p)

RubricRange(p) ==
    IF RangeOf(p) < Hz(20) THEN "low" ELSE IF RangeOf(p) < Hz(60) THEN "mid" ELSE "high"
RubricSd(p) ==
    IF RubricSdBelow(p, 10) THEN "low" ELSE IF RubricSdBelow(p, 40) THEN "mid" ELSE "high"
RubricSlope(p) ==
    IF RubricSlopeBelow(p, -1, 10) THEN "low"
    ELSE IF RubricSlopeBelow(p, 1, 20) THEN "mid"
    ELSE "high"

RubricSum(p) ==
    (CASE RubricRange(p) = "low" -> 10 [] RubricRange(p) = "mid" -> 30 [] OTHER -> 40)
  + (CASE RubricSd(p) = "low" -> 10 [] RubricSd(p) = "mid" -> 30 [] OTHER -> 20)
  + (CASE RubricSlope(p) = "low" -> 30 [] RubricSlope(p) = "mid" -> 20 [] OTHER -> 10)

\* C1: on every contour that reaches the scoring step the returned score is the
\* sum of the three rubric contributions clamped to [0,100], an integer of that
\* interval; the contour [100,105,110,108,102] scores 30 and the contour
\* [150,180,140,200,130,210] scores 80.
C1_ScoreIsRubricSum ==
    Scored =>
        /\ Len(pitches) >= 5
        /\ result.score = ClampScore(RubricSum(pitches))
        /\ result.score \in 0..100
        /\ (pitches = Example1 => result.score = 30)
        /\ (pitches = Example2 => result.score = 80)

C1_Witness == Scored /\ pitches = Example2 /\ result.score = 80

\* C2: the result carries the numeric fields exactly when the combined contour
\* has at least 5 points; with fewer it is exactly score 0 and a non-empty
\* feedback, and the features are never computed.
C2_NumericFieldsIffEnough ==
    /\ Len(pitches) < 5 => features = NoFeatures
    /\ Returned =>
        /\ (NumericFields \subseteq DOMAIN result) <=> (Len(pitches) >= 5)
        /\ Len(pitches) < 5 =>
              /\ DOMAIN result = {"score", "feedback"}
              /\ result.score = 0
              /\ result.feedback # <<>>

C2_Witness ==
    /\ pc = "Insufficient"
    /\ Len(pitches) = 4
    /\ result.score = 0
    /\ features = NoFeatures

ClaimedWindows(len) ==
    IF len >= windowSize THEN ((len - windowSize) \div hop) + 1 ELSE 0

\* C3: one scan pass visits floor((length - 512) / 256) + 1 windows when
\* length >= 512 and none when length < 512.
C3_WindowCount ==
    /\ pc \notin {"Start", "Phase1Scan"} =>
          Len(visited1) = ClaimedWindows(Length(floatSamples))
    /\ (pc \in Terminal /\ retries > 0) =>
          Len(visited2) = ClaimedWindows(Length(floatSamples))

\* C4 as stated: any two consecutive contour elements come from windows with
\* strictly increasing start indices, whether or not the relaxed scan ran.
C4_TimeOrdered ==
    /\ Len(origin) = Len(pitches)
    /\ \A k \in 1..(Len(origin) - 1) : origin[k].start < origin[k + 1].start

\* C4 as amended: the contour holds one element per acceptance of a window, each
\* the estimate of that window; the elements of the strict scan precede those of
\* the relaxed scan, and two consecutive elements appended by the same scan come
\* from windows with strictly increasing start indices.
C4_OrderedWithinPhase ==
    /\ Len(origin) = Len(pitches)
    /\ \A k \in DOMAIN origin : pitches[k] = heard[(origin[k].start \div hop) + 1]
    /\ \A k \in 1..(Len(origin) - 1) :
          /\ origin[k].phase <= origin[k + 1].phase
          /\ origin[k].phase = origin[k + 1].phase =>
                origin[k].start < origin[k + 1].start
    /\ retries = 0 =>
          \A k \in 1..(Len(origin) - 1) : origin[k].start < origin[k + 1].start

C4_Witness ==
    /\ Scored
    /\ \E k \in 1..(Len(origin) - 1) :
          /\ origin[k].phase = 1
          /\ origin[k + 1].phase = 2
          /\ origin[k + 1].start < origin[k].start

\* C5: each feedback sentence names the bucket the rubric gave its feature:
\* monotone / good / great for range < 20, < 60, >= 60; robotic / good stability /
\* unstable for sd < 10, < 40, >= 40; falling / neutral / rising for
\* slope < -0.1, < 0.05, >= 0.05.
C5_FeedbackMatchesRubric ==
    Scored =>
        /\ result.feedback[1] =
              (CASE RubricRange(pitches) = "low" -> "monotone"
                 [] RubricRange(pitches) = "mid" -> "good variation"
                 [] OTHER -> "great variation")
        /\ result.feedback[2] =
              (CASE RubricSd(pitches) = "low" -> "robotic"
                 [] RubricSd(pitches) = "mid" -> "good stability"
                 [] OTHER -> "unstable")
        /\ result.feedback[3] =
              (CASE RubricSlope(pitches) = "low" -> "falling"
                 [] RubricSlope(pitches) = "mid" -> "neutral"
                 [] OTHER -> "rising")

JustNormalised == pc = "Phase1Scan" /\ i = 0 /\ visited1 = <<>>

PeakBelowTenth(w) ==
    \A idx \in 1..Length(w) : 10 * Abs(SampleAt(w, idx)) < PcmScale

ClampUnit(x) == IF x < -PcmScale THEN -PcmScale ELSE IF x > PcmScale THEN PcmScale ELSE x

\* C6: normalisation keeps the length; a waveform whose peak is below 0.1 comes
\* out as clamp(3 * sample, -1, 1) sample by sample, within [-1, 1]; a waveform
\* whose peak is at least 0.1 comes out unchanged.
C6_Normalisation ==
    JustNormalised =>
        /\ Length(samples) = Length(floatSamples)
        /\ PeakBelowTenth(floatSamples) =>
              \A idx \in 1..Length(floatSamples) :
                  /\ SampleAt(samples, idx) = ClampUnit(3 * SampleAt(floatSamples, idx))
                  /\ Abs(SampleAt(samples, idx)) <= PcmScale
        /\ ~PeakBelowTenth(floatSamples) =>
              \A idx \in 1..Length(floatSamples) :
                  SampleAt(samples, idx) = SampleAt(floatSamples, idx)

C6_Witness ==
    /\ JustNormalised
    /\ Length(floatSamples) = 2
    /\ SampleAt(floatSamples, 1) = 3276
    /\ SampleAt(samples, 1) = 9828
    /\ SampleAt(samples, 2) = -9828

InBand(pitch, lo, hi) == pitch > Hz(lo) /\ pitch < Hz(hi)

\* C7: at every point of the scan each contour element lies in the band of the
\* scan that appended it, (40, 600) for the strict scan and (30, 800) for the
\* relaxed one; without a relaxed scan the whole contour lies in (40, 600), and
\* in every case in (30, 800).
C7_ElementsInBand ==
    /\ Len(origin) = Len(pitches)
    /\ \A k \in DOMAIN pitches :
          /\ origin[k].phase = 1 => InBand(pitches[k], 40, 600)
          /\ origin[k].phase = 2 => InBand(pitches[k], 30, 800)
          /\ retries = 0 => InBand(pitches[k], 40, 600)
          /\ InBand(pitches[k], 30, 800)

C7_Witness ==
    /\ pc = "Success"
    /\ \E k \in DOMAIN pitches : origin[k].phase = 1
    /\ \E k \in DOMAIN pitches :
          origin[k].phase = 2 /\ ~InBand(pitches[k], 40, 600)

AllowedMoves ==
    {<<"Start", "Phase1Scan">>,
     <<"Phase1Scan", "Success">>, <<"Phase1Scan", "Phase2Scan">>,
     <<"Phase2Scan", "Success">>, <<"Phase2Scan", "Insufficient">>}

\* loop iterations left in a scan that stands at start index k
WindowsLeft(k) ==
    LET len == Length(floatSamples)
    IN  IF k < len - windowSize THEN (len - windowSize - k + hop - 1) \div hop ELSE 0

\* an upper bound of the number of steps left
StepsLeft ==
    CASE pc = "Start" -> 2 * WindowsLeft(0) + 4
      [] pc = "Phase1Scan" -> WindowsLeft(i) + WindowsLeft(0) + 3
      [] pc = "Phase2Scan" -> WindowsLeft(i) + 2
      [] pc = "Success" -> IF Returned THEN 0 ELSE 1
      [] OTHER -> 0

C8_Moves ==
    /\ pc' # pc => <<pc, pc'>> \in AllowedMoves
    /\ StepsLeft' < StepsLeft
    /\ (pc = "Phase1Scan" /\ pc' # pc) => (pc' = "Phase2Scan" <=> Len(pitches) < 5)
    /\ pc' = "Phase2Scan" /\ pc # "Phase2Scan" => retries = 0 /\ retries' = 1
    /\ pc \in Terminal =>
          /\ pc' = pc
          /\ <<i, heard, pitches, origin, visited1, visited2, retries>>' =
                <<i, heard, pitches, origin, visited1, visited2, retries>>

C8_States ==
    /\ pc \in {"Start", "Phase1Scan", "Phase2Scan"} \cup Terminal
    /\ retries \in {0, 1}
    /\ pc = "Phase2Scan" => retries = 1
    /\ pc = "Success" => Len(pitches) >= 5
    /\ pc = "Insufficient" => Len(pitches) < 5 /\ retries = 1
    /\ pc \notin Terminal => ENABLED Next

\* C8: a run goes Start -> Phase1Scan -> (Success | Phase2Scan) ->
\* (Success | Insufficient) and always ends in Success or Insufficient; the
\* relaxed scan is entered exactly when the strict scan accepted fewer than 5
\* estimates, and at most once; Success is reached exactly with a contour of at
\* least 5 elements; nothing is scanned after a terminal state.  Termination
\* is stated by a step count that every step lowers and by a step being
\* possible in every state that is not terminal.
C8_StateMachine ==
    /\ []C8_States
    /\ [][C8_Moves]_vars

C8_Witness ==
    /\ pc = "Insufficient"
    /\ retries = 1
    /\ Len(visited2) = MaxWindows
    /\ Len(pitches) = 4

StrictPart == SelectSeq(heard, LAMBDA x : x # NoPitch /\ InBand(x, 40, 600))
RelaxedPart == SelectSeq(heard, LAMBDA x : x # NoPitch /\ InBand(x, 30, 800))

\* C9: after a relaxed scan the contour is the strict-band estimates followed by
\* all the relaxed-band estimates of the same windows; with p1 and p2 of them,
\* p1 < 5, p2 >= p1, the contour has p1 + p2 >= 2 * p1 elements, pitchCount
\* reports p1 + p2, and the analysis succeeds exactly when p1 + p2 >= 5.
C9_RelaxedScanAppends ==
    (pc \in Terminal /\ retries = 1) =>
        /\ pitches = StrictPart \o RelaxedPart
        /\ Len(StrictPart) < 5
        /\ Len(RelaxedPart) >= Len(StrictPart)
        /\ Len(pitches) >= 2 * Len(StrictPart)
        /\ pc = "Success" <=> Len(StrictPart) + Len(RelaxedPart) >= 5
        /\ Scored => result.pitchCount = Len(StrictPart) + Len(RelaxedPart)

C9_Witness ==
    /\ Scored
    /\ retries = 1
    /\ Len(StrictPart) = 2
    /\ Len(RelaxedPart) = 3
    /\ result.pitchCount = 5

\* 4 * variance <= range^2, with variance = SumDev2 / n^3
SdAtMostHalfRange(p) ==
    LET n3 == Cube(Len(p))
        d == RangeOf(p) * RangeOf(p) - 4 * (SumDev2(p) \div n3)
    IN  d >= 4 \/ (d >= 0 /\ 4 * (SumDev2(p) % n3) <= d * n3)

\* C10: every score of a successful analysis is a multiple of 10 from 30 to 100,
\* so the clamp changes nothing; sd <= range / 2, so a range below 20 forces an
\* sd below 10 and a score of at most 50.
C10_ScoreLattice ==
    Scored =>
        /\ result.score \in {10 * k : k \in 3..10}
        /\ result.score = RubricSum(pitches)
        /\ SdAtMostHalfRange(pitches)
        /\ RangeOf(pitches) < Hz(20) =>
              /\ RubricSdBelow(pitches, 10)
              /\ result.score <= 50

C10_Witness ==
    /\ Scored
    /\ RangeOf(pitches) < Hz(20)
    /\ RangeOf(pitches) > 0
    /\ result.score = 40

====
